---- MODULE Spec2Model ----
(***************************************************************************)
(* A model of the PatentSafe MCP server (src/patentsafe_mcp.py): startup   *)
(* (main, initialize_server, tool registration), the three tools           *)
(* get_document, search_documents and search_documents_next_page, and the  *)
(* page store _remaining_search_results that the two search tools share.   *)
(*                                                                         *)
(* Strings are modelled as sequences of atoms (an atom is a TLA+ string    *)
(* that stands for a piece of text which is never split): string           *)
(* concatenation is \o, str.replace works atom by atom and "a in s" is     *)
(* membership of the atom in the sequence.                                 *)
(***************************************************************************)
EXTENDS Integers, Sequences, FiniteSets, TLC

(***************************************************************************)
(* Bounds of the model.                                                    *)
(***************************************************************************)
\* how many different strings random.choices can produce (62^32 in the code)
NumTokens == 2
\* the longest result list the backend returns for one search
MaxLen == 21
\* the number of different documents of the backend
NumDocs == 12
\* the longest metadataFields list of a handshake answer
MaxFields == 2
\* how many searches may be under way (started, not yet paged to the end)
\* before callers start no further one
MaxOutstanding == 3

(***************************************************************************)
(* Program constants and Python values.                                    *)
(***************************************************************************)
\* main: SEARCH_DOCUMENT_RESPONSE_SIZE = 10
SEARCH_DOCUMENT_RESPONSE_SIZE == 10

\* Python's None where the other values are integers (a token, an exit code)
None == 0

Tokens == 1..NumTokens
Docs == 1..NumDocs
\* the callers that invoke tools
Clients == {"c1", "c2"}

\* the placeholder markers of search_documents.__doc__
METADATA_FIELDS_MARKER == "%%METADATA_FIELDS%%"
BASE_URL_MARKER == "%%BASE_URL%%"
Markers == {METADATA_FIELDS_MARKER, BASE_URL_MARKER}

(***************************************************************************)
(* Inputs: the command line and the backend's answers.                     *)
(***************************************************************************)
\* sys.argv as parsed by argparse: the base URL and the optional --prefix
BaseUrls == {"http://ps", BASE_URL_MARKER, METADATA_FIELDS_MARKER}
Prefixes == {"None", "lab"}
Argvs == [base_url : BaseUrls, prefix : Prefixes]

\* the field names a handshake answer may list, in Python's string order
FieldUniverse == <<BASE_URL_MARKER, METADATA_FIELDS_MARKER, "author", "rating">>
FieldNames == {FieldUniverse[i] : i \in 1..Len(FieldUniverse)}
FieldLists == UNION {[1..n -> FieldNames] : n \in 0..MaxFields}

\* Python's order of two strings of FieldUniverse: a < b
Rank(a) == CHOOSE i \in 1..Len(FieldUniverse) : FieldUniverse[i] = a
StrLess(a, b) == Rank(a) < Rank(b)

\* the HTTP statuses the backend answers with, and their reason phrases
Statuses == {200, 400, 401, 403, 404, 500}
Reason(status) ==
    CASE status = 200 -> "OK"
      [] status = 400 -> "Bad Request"
      [] status = 401 -> "Unauthorized"
      [] status = 403 -> "Forbidden"
      [] status = 404 -> "Not Found"
      [] OTHER -> "Internal Server Error"
StatusStr(status) ==
    CASE status = 200 -> "200"
      [] status = 400 -> "400"
      [] status = 401 -> "401"
      [] status = 403 -> "403"
      [] status = 404 -> "404"
      [] OTHER -> "500"

\* the text bodies of the backend's error answers
Bodies == {"bad query", "Bad Request"}

\* requests.get/post raised before any answer arrived (ConnectionError,
\* Timeout): the handler's local variable response stays unbound
Unbound == [kind |-> "unbound"]
\* an HTTP answer: status line, text body and the body read as JSON
HttpResponse(status, body, json) ==
    [kind |-> "http", status_code |-> status, reason |-> Reason(status),
     text |-> body, json |-> json]

\* GET /connect: a ServerInfoResponse document, a document that is not one,
\* an error status, or no answer
ServerInfoJson(fields) ==
    [valid |-> TRUE, serverVersion |-> "6.12", userId |-> "user123",
     contextHeader |-> "ctx", metadataFields |-> fields]
InvalidJson == [valid |-> FALSE]
ConnectResponses ==
    {HttpResponse(200, "", ServerInfoJson(f)) : f \in FieldLists}
    \cup {HttpResponse(200, "", InvalidJson)}
    \cup {HttpResponse(s, "", InvalidJson) : s \in {401, 404, 500}}
    \cup {Unbound}

(***************************************************************************)
(* Strings.                                                                *)
(***************************************************************************)
\* raise_for_status as if only server errors raised
raise_for_status_5xx(response) == response.status_code >= 500

\* response.raise_for_status(): does it raise requests.HTTPError
raise_for_status(response) == response.status_code >= 400

\* str(e) of the HTTPError raised by raise_for_status, or of a ConnectionError
HTTPErrorMsg(response, url) ==
    <<StatusStr(response.status_code),
      IF response.status_code < 500 THEN " Client Error: " ELSE " Server Error: ",
      response.reason, " for url: ">> \o url
StrE(response, url) ==
    IF response.kind = "http" THEN HTTPErrorMsg(response, url)
    ELSE <<"Connection refused: ">> \o url

\* sorted(xs) for a list of strings: insertion sort by Python's string order
RECURSIVE Insert(_, _)
Insert(x, s) ==
    IF s = <<>> THEN <<x>>
    ELSE IF StrLess(x, Head(s)) THEN <<x>> \o s
    ELSE <<Head(s)>> \o Insert(x, Tail(s))
RECURSIVE sorted(_)
sorted(xs) == IF xs = <<>> THEN <<>> ELSE Insert(Head(xs), sorted(Tail(xs)))

\* sep.join(xs)
RECURSIVE join(_, _)
join(sep, xs) ==
    IF xs = <<>> THEN <<>>
    ELSE IF Len(xs) = 1 THEN <<xs[1]>>
    ELSE <<xs[1], sep>> \o join(sep, Tail(xs))

\* s.replace(old, new): every atom old of s becomes the atoms of new
RECURSIVE replace(_, _, _)
replace(s, old, new) ==
    IF s = <<>> THEN <<>>
    ELSE (IF Head(s) = old THEN new ELSE <<Head(s)>>) \o replace(Tail(s), old, new)

Atoms(s) == {s[i] : i \in 1..Len(s)}

\* search_documents.__doc__: the static text with its placeholder markers
search_documents_doc ==
    <<"Search for documents ... by using the following pattern: ",
      BASE_URL_MARKER, "/ps/experiment/view/AMPH3100012802 ... citation link [12345]: ",
      BASE_URL_MARKER, "/ps/experiment/view/AMPH3100012802 ... following pattern: ",
      BASE_URL_MARKER, "/ps/experiment/view/AMPH3100012802 ... citation link [12345]: ",
      BASE_URL_MARKER, "/ps/experiment/view/AMPH3100012802 ... Args: ... fields is: ",
      METADATA_FIELDS_MARKER, " Returns: ... Raises: ...">>
get_document_doc == <<"Get a document by its ID. ...">>
\* search_documents_next_page has no docstring: its __doc__ is None
search_documents_next_page_doc == <<>>

\* SearchDescription as if the field names were joined unsorted
SearchDescription_unsorted(metadataFields, base_url) ==
    replace(replace(search_documents_doc, METADATA_FIELDS_MARKER,
                    join(", ", metadataFields)),
            BASE_URL_MARKER, <<base_url>>)

\* main: the description registered for search_documents
SearchDescription(metadataFields, base_url) ==
    replace(replace(search_documents_doc, METADATA_FIELDS_MARKER,
                    join(", ", sorted(metadataFields))),
            BASE_URL_MARKER, <<base_url>>)

(***************************************************************************)
(* The backend's answers to the tools.                                     *)
(***************************************************************************)
\* a result list of the backend: n documents in the backend's order, from
\* document first on (the corpus is a ring, so a long list repeats documents)
DocRange(first, n) == [i \in 1..n |-> ((first + i - 2) % NumDocs) + 1]
Firsts == {1, 2}
ResultLists == {DocRange(first, n) : first \in Firsts, n \in 0..MaxLen}
\* result lists of one full page's, two pages' and three pages' length
PagedResultLists ==
    {DocRange(2, SEARCH_DOCUMENT_RESPONSE_SIZE),
     DocRange(1, SEARCH_DOCUMENT_RESPONSE_SIZE + 1),
     DocRange(2, 2 * SEARCH_DOCUMENT_RESPONSE_SIZE + 1)}

\* POST /documents/search: the result list, an error status with a text body
\* (whose JSON reading is a truncated list), or no answer
SearchErrorStatuses == {400, 401, 500}
SearchResponsesOf(lists) ==
    {HttpResponse(200, "", r) : r \in lists}
    \cup {HttpResponse(400, b, DocRange(1, SEARCH_DOCUMENT_RESPONSE_SIZE + 1)) :
            b \in Bodies}
    \cup {HttpResponse(s, "denied", DocRange(1, SEARCH_DOCUMENT_RESPONSE_SIZE + 1)) :
            s \in SearchErrorStatuses \ {400}}
    \cup {Unbound}
SearchResponses == SearchResponsesOf(ResultLists)
PagedSearchResponses == SearchResponsesOf(PagedResultLists)

\* GET /documents/{id}: the document, an error status (the text says why the
\* backend refused), or no answer
GetBodies == {"no such document", "not yours"}
GetResponses ==
    {HttpResponse(200, "", d) : d \in {1, 2}}
    \cup {HttpResponse(404, b, None) : b \in GetBodies}
    \cup {HttpResponse(s, "not yours", None) : s \in {401, 403, 500}}
    \cup {Unbound}
\* the document ids callers ask for
DocumentIds == {1}

\* an optional argument: left at its default None, or given
NoneArg == [given |-> FALSE]
Given(value) == [given |-> TRUE, value |-> value]
\* datetime values
Datetimes == {[year |-> 2023, month |-> 1, day |-> 1],
              [year |-> 2023, month |-> 12, day |-> 31]}
\* the arguments of search_documents calls
SearchArgs ==
    [lucene_query_string : {<<"red cabbage">>},
     author_id : {NoneArg, Given(<<"alice">>)},
     submission_date_range_start : {NoneArg} \cup {Given(d) : d \in Datetimes},
     submission_date_range_end : {NoneArg, Given([year |-> 2023, month |-> 12, day |-> 31])}]

\* JSON values of a request body
JsonNull == [json |-> "null"]
JsonString(s) == [json |-> "string", value |-> s]

\* str(n) for one decimal digit, and n written with at least two digits
Digit(n) ==
    CASE n = 0 -> "0" [] n = 1 -> "1" [] n = 2 -> "2" [] n = 3 -> "3" [] n = 4 -> "4"
      [] n = 5 -> "5" [] n = 6 -> "6" [] n = 7 -> "7" [] n = 8 -> "8" [] OTHER -> "9"
RECURSIVE Decimal(_)
Decimal(n) == IF n < 10 THEN <<Digit(n)>> ELSE Append(Decimal(n \div 10), Digit(n % 10))
Pad(n, width) ==
    [i \in 1..(width - Len(Decimal(n))) |-> "0"] \o Decimal(n)
\* datetime.isoformat() of a date at midnight without timezone
isoformat(dt) ==
    Pad(dt.year, 4) \o <<"-">> \o Pad(dt.month, 2) \o <<"-">> \o Pad(dt.day, 2)
      \o <<"T00:00:00">>

\* search_documents 208-213: the json argument of requests.post, a dict with
\* these four keys whatever the arguments are (None is sent as null)
SearchBody(args) ==
    [luceneQuery |-> JsonString(args.lucene_query_string),
     authorId |-> IF args.author_id.given
                  THEN JsonString(args.author_id.value) ELSE JsonNull,
     submissionDateRangeStart |->
         IF args.submission_date_range_start.given
         THEN JsonString(isoformat(args.submission_date_range_start.value))
         ELSE JsonNull,
     submissionDateRangeEnd |->
         IF args.submission_date_range_end.given
         THEN JsonString(isoformat(args.submission_date_range_end.value))
         ELSE JsonNull]

(***************************************************************************)
(* What a call ends with.                                                  *)
(***************************************************************************)
\* return value
Return(value) == [kind |-> "return", value |-> value]
\* raise exc(msg): the exception reaches the caller of the tool
Raise(exc, msg) == [kind |-> "raise", exc |-> exc, msg |-> msg]
\* sys.exit(code) after print(msg, file=sys.stderr)
Exit(code, msg) == [kind |-> "exit", code |-> code, msg |-> msg]
\* no call has ended yet
NoRet == [kind |-> "none"]

\* SearchDocumentResponse(documents=..., next_page_token=..., total=...)
SearchDocumentResponse(documents, next_page_token, total) ==
    [documents |-> documents, next_page_token |-> next_page_token, total |-> total]

(***************************************************************************)
(* initialize_server: the outcome of the handshake for the backend's       *)
(* answer to GET {base_url}/api/mcp/connect.                               *)
(***************************************************************************)
ConnectUrl(base_url) == <<base_url, "/api/mcp", "/connect">>

\* initialize_server as if only 401 and 404 stopped the startup
initialize_server_lenient(base_url, response) ==
    IF response.kind = "http" /\ ~raise_for_status(response)
    THEN IF response.json.valid THEN Return(response.json)
         ELSE Raise("ValidationError", <<"validation errors for ServerInfoResponse">>)
    ELSE IF response.kind = "http" /\ response.status_code = 401
    THEN Exit(1, <<"Error: ", "Authentication failed - invalid token">>)
    ELSE IF response.kind = "http" /\ response.status_code = 404
    THEN Exit(1, <<"Error: ", "Invalid PatentSafe URL">>)
    ELSE Return(ServerInfoJson(<<>>))

initialize_server(base_url, response) ==
    IF response.kind = "http" /\ ~raise_for_status(response)
    THEN \* ServerInfoResponse.model_validate(response.json())
         IF response.json.valid THEN Return(response.json)
         ELSE Raise("ValidationError", <<"validation errors for ServerInfoResponse">>)
    ELSE \* except requests.RequestException as e
         Exit(1,
              IF response.kind = "http" /\ response.status_code = 401
              THEN <<"Error: ", "Authentication failed - invalid token">>
              ELSE IF response.kind = "http" /\ response.status_code = 404
              THEN <<"Error: ", "Invalid PatentSafe URL">>
              ELSE <<"Error: ", "Failed to initialize PatentSafe connection: ">>
                   \o StrE(response, ConnectUrl(base_url)))

\* main: tool_prefix = f"{args.prefix}_" if args.prefix else ""
ToolName(prefix, name) ==
    IF prefix = "None" THEN <<name>> ELSE <<prefix, "_", name>>

AddTool(fn, name, description) ==
    [fn |-> fn, name |-> name, description |-> description]

(***************************************************************************)
(* The tools, as functions of the backend's answer.                        *)
(***************************************************************************)
DocumentUrl(base_url, document_id) ==
    <<base_url, "/api/mcp", "/documents/", document_id>>
SearchUrl(base_url) == <<base_url, "/api/mcp", "/documents/search">>

\* the name of a document in a URL
DocId(d) == IF d = 1 THEN "AMPH1" ELSE "AMPH2"

\* the try block raised requests.RequestException
RequestFailed(response) ==
    response.kind = "unbound" \/ raise_for_status(response)

\* get_document as if a 404 told an absent document from a denied one
get_document_leaky(url, response) ==
    IF ~RequestFailed(response) THEN Return(response.json)
    ELSE IF response.kind = "unbound"
    THEN Raise("UnboundLocalError", <<"cannot access local variable response">>)
    ELSE IF response.status_code = 404
    THEN Raise("Exception", <<"Document not found or access denied: ", response.text>>)
    ELSE IF response.status_code = 401
    THEN Raise("Exception", <<"Unauthorized - invalid user ID">>)
    ELSE IF response.status_code = 403
    THEN Raise("Exception", <<"Access denied">>)
    ELSE Raise("Exception", <<"Failed to fetch document: ">> \o StrE(response, url))

\* get_document as if an unclassified failure ended the process
get_document_exits(url, response) ==
    IF ~RequestFailed(response) THEN Return(response.json)
    ELSE IF response.kind = "unbound"
    THEN Raise("UnboundLocalError", <<"cannot access local variable response">>)
    ELSE IF response.status_code = 404
    THEN Raise("Exception", <<"Document not found or access denied">>)
    ELSE IF response.status_code = 401
    THEN Raise("Exception", <<"Unauthorized - invalid user ID">>)
    ELSE IF response.status_code = 403
    THEN Raise("Exception", <<"Access denied">>)
    ELSE Exit(1, <<"Failed to fetch document: ">> \o StrE(response, url))

\* get_document 107-119: what the call ends with for the backend's answer
get_document(url, response) ==
    IF ~RequestFailed(response) THEN Return(response.json)
    ELSE \* except requests.RequestException as e: reads response.status_code
         IF response.kind = "unbound"
         THEN Raise("UnboundLocalError", <<"cannot access local variable response">>)
         ELSE IF response.status_code = 404
         THEN Raise("Exception", <<"Document not found or access denied">>)
         ELSE IF response.status_code = 401
         THEN Raise("Exception", <<"Unauthorized - invalid user ID">>)
         ELSE IF response.status_code = 403
         THEN Raise("Exception", <<"Access denied">>)
         ELSE Raise("Exception", <<"Failed to fetch document: ">> \o StrE(response, url))

\* search_documents 217-223: the except clause
search_documents_except(url, response) ==
    IF response.kind = "unbound"
    THEN Raise("UnboundLocalError", <<"cannot access local variable response">>)
    ELSE IF response.status_code = 401
    THEN Raise("Exception", <<"Unauthorized - invalid user ID">>)
    ELSE IF response.status_code = 400
    THEN Raise("Exception", <<"Invalid search query: ">> \o StrE(response, url))
    ELSE Raise("Exception", <<"Failed to search documents: ">> \o StrE(response, url))

\* dict: d[key] = value, and d without key (the effect of d.pop(key))
DictSet(d, key, value) ==
    [k \in DOMAIN d \cup {key} |-> IF k = key THEN value ELSE d[k]]
\* d.pop(key) as if it read the entry and left it in the dict
DictPop_keeps(d, key) == d
\* d.pop(key) as if a key that is not in the dict emptied it
DictPop_clears(d, key) ==
    IF key \in DOMAIN d THEN [k \in DOMAIN d \ {key} |-> d[k]] ELSE <<>>
DictPop(d, key) == [k \in DOMAIN d \ {key} |-> d[k]]

\* return_search_results as if the stored remainder began at the page's
\* last document
return_search_results_overlap(store, remaining_results, total, next_page_token) ==
    IF Len(remaining_results) <= SEARCH_DOCUMENT_RESPONSE_SIZE
    THEN [page |-> SearchDocumentResponse(remaining_results, None, total),
          store |-> store]
    ELSE [page |-> SearchDocumentResponse(
                       SubSeq(remaining_results, 1, SEARCH_DOCUMENT_RESPONSE_SIZE),
                       next_page_token, total),
          store |-> DictSet(store, next_page_token,
                       [documents |-> SubSeq(remaining_results,
                                             SEARCH_DOCUMENT_RESPONSE_SIZE,
                                             Len(remaining_results)),
                        total |-> total])]

\* return_search_results as if a page that is followed by another held one
\* document more
return_search_results_wide(store, remaining_results, total, next_page_token) ==
    IF Len(remaining_results) <= SEARCH_DOCUMENT_RESPONSE_SIZE
    THEN [page |-> SearchDocumentResponse(remaining_results, None, total),
          store |-> store]
    ELSE [page |-> SearchDocumentResponse(
                       SubSeq(remaining_results, 1, SEARCH_DOCUMENT_RESPONSE_SIZE + 1),
                       next_page_token, total),
          store |-> DictSet(store, next_page_token,
                       [documents |-> SubSeq(remaining_results,
                                             SEARCH_DOCUMENT_RESPONSE_SIZE + 2,
                                             Len(remaining_results)),
                        total |-> total])]

\* return_search_results as if a page reported how many documents were left
\* when it was cut
return_search_results_recount(store, remaining_results, total, next_page_token) ==
    IF Len(remaining_results) <= SEARCH_DOCUMENT_RESPONSE_SIZE
    THEN [page |-> SearchDocumentResponse(remaining_results, None,
                                          Len(remaining_results)),
          store |-> store]
    ELSE [page |-> SearchDocumentResponse(
                       SubSeq(remaining_results, 1, SEARCH_DOCUMENT_RESPONSE_SIZE),
                       next_page_token, Len(remaining_results)),
          store |-> DictSet(store, next_page_token,
                       [documents |-> SubSeq(remaining_results,
                                             SEARCH_DOCUMENT_RESPONSE_SIZE + 1,
                                             Len(remaining_results)),
                        total |-> total])]

\* return_search_results as if the whole list were stored for the next page
return_search_results_stuck(store, remaining_results, total, next_page_token) ==
    IF Len(remaining_results) <= SEARCH_DOCUMENT_RESPONSE_SIZE
    THEN [page |-> SearchDocumentResponse(remaining_results, None, total),
          store |-> store]
    ELSE [page |-> SearchDocumentResponse(
                       SubSeq(remaining_results, 1, SEARCH_DOCUMENT_RESPONSE_SIZE),
                       next_page_token, total),
          store |-> DictSet(store, next_page_token,
                       [documents |-> remaining_results, total |-> total])]

\* return_search_results 129-149 on the store, with next_page_token the
\* string random.choices draws: the page returned and the store afterwards
return_search_results(store, remaining_results, total, next_page_token) ==
    IF Len(remaining_results) <= SEARCH_DOCUMENT_RESPONSE_SIZE
    THEN [page |-> SearchDocumentResponse(remaining_results, None, total),
          store |-> store]
    ELSE [page |-> SearchDocumentResponse(
                       SubSeq(remaining_results, 1, SEARCH_DOCUMENT_RESPONSE_SIZE),
                       next_page_token, total),
          store |-> DictSet(store, next_page_token,
                       [documents |-> SubSeq(remaining_results,
                                             SEARCH_DOCUMENT_RESPONSE_SIZE + 1,
                                             Len(remaining_results)),
                        total |-> total])]

(***************************************************************************)
(* The state.                                                              *)
(***************************************************************************)
VARIABLES
    main_pc,      \* where main is
    argv,         \* the parsed command line
    BASE_URL,     \* the global BASE_URL (<<>> while unset)
    server_info,  \* main's local server_info (<<>> while unbound)
    tools,        \* the tools registered with mcp, in registration order
    running,      \* mcp.run() has been called
    exit_code,    \* the exit status of the process (None while it lives)
    connect_response,  \* initialize_server's local response (<<>> before the call)
    stderr,       \* the lines written to sys.stderr
    remaining_search_results,  \* the global _remaining_search_results
    pc,           \* per caller: where its tool call is
    fn,           \* per caller: the tool of its current or last call
    arg,          \* per caller: the argument of that call
    response,     \* per caller: the handler's local response
    frame,        \* per caller: the arguments of return_search_results
    ret,          \* per caller: what its last call ended with
    requests,     \* per caller: backend requests made by its current call
    chain,        \* per caller: the logical search it is paging through
    raced,        \* per caller: its pop succeeded while another call on the
                  \* same token was waiting to pop
    issued,       \* the tokens return_search_results has stored so far
    redeemed,     \* the tokens popped from the store so far
    json_body,    \* per caller: the JSON body its current call posted
                  \* (<<>> when it posted none)
    outstanding   \* where searches are counted: how many got a first page
                  \* with a token and no token-less page since

mainVars == <<main_pc, argv, BASE_URL, server_info, tools, running, exit_code,
              connect_response, stderr>>
callVars == <<pc, fn, arg, response, frame, ret, requests, chain, raced, issued, redeemed,
              json_body, outstanding>>
vars == <<mainVars, remaining_search_results, callVars>>

NoFrame == [remaining_results |-> <<>>, total |-> 0]
NoChain == [st |-> "none", R |-> <<>>, got |-> <<>>, tok |-> None, pages |-> 0]

TypeOK ==
    /\ main_pc \in {"initialize_server", "add_tool_get_document",
                    "add_tool_search_documents_next_page",
                    "add_tool_search_documents", "run", "serving", "exited"}
    /\ argv \in Argvs
    /\ exit_code \in {None, 1}
    /\ running \in BOOLEAN
    /\ DOMAIN remaining_search_results \subseteq Tokens
    /\ \A c \in Clients :
         pc[c] \in {"idle", "get_document", "search_documents",
                    "search_documents_next_page", "return_search_results", "done"}

\* the process has just parsed its command line
InitWith(argvs) ==
    /\ main_pc = "initialize_server"
    /\ argv \in argvs
    /\ BASE_URL = <<>>
    /\ server_info = <<>>
    /\ tools = <<>>
    /\ running = FALSE
    /\ exit_code = None
    /\ connect_response = <<>>
    /\ stderr = <<>>
    /\ remaining_search_results = <<>>
    /\ pc = [c \in Clients |-> "idle"]
    /\ fn = [c \in Clients |-> "none"]
    /\ arg = [c \in Clients |-> None]
    /\ response = [c \in Clients |-> Unbound]
    /\ frame = [c \in Clients |-> NoFrame]
    /\ ret = [c \in Clients |-> NoRet]
    /\ requests = [c \in Clients |-> 0]
    /\ chain = [c \in Clients |-> NoChain]
    /\ raced = [c \in Clients |-> FALSE]
    /\ issued = {}
    /\ redeemed = {}
    /\ json_body = [c \in Clients |-> <<>>]
    /\ outstanding = 0

(***************************************************************************)
(* main.                                                                   *)
(***************************************************************************)
\* main 239-244: the handshake, then the two lines on stderr
MainInitializeServer(responses) ==
    /\ main_pc = "initialize_server"
    /\ \E resp \in responses :
         LET out == initialize_server(argv.base_url, resp) IN
         /\ BASE_URL' = <<argv.base_url>>
         /\ connect_response' = <<resp>>
         /\ IF out.kind = "return"
            THEN /\ server_info' = <<out.value>>
                 /\ stderr' = stderr \o
                       << <<"Connected to PatentSafe at ", argv.base_url>>,
                          <<"Available metadata fields: ">>
                             \o join(", ", sorted(out.value.metadataFields)) >>
                 /\ main_pc' = "add_tool_get_document"
                 /\ exit_code' = exit_code
            ELSE IF out.kind = "exit"
            THEN /\ stderr' = Append(stderr, out.msg)
                 /\ exit_code' = out.code
                 /\ main_pc' = "exited"
                 /\ server_info' = server_info
            ELSE \* an exception nobody catches: traceback, exit status 1
                 /\ stderr' = Append(stderr, <<"Traceback: ", out.exc>> \o out.msg)
                 /\ exit_code' = 1
                 /\ main_pc' = "exited"
                 /\ server_info' = server_info
    /\ UNCHANGED <<argv, tools, running, remaining_search_results, callVars>>

\* main 248-252
MainAddGetDocument ==
    /\ main_pc = "add_tool_get_document"
    /\ tools' = Append(tools, AddTool("get_document",
                                      ToolName(argv.prefix, "get_document"),
                                      get_document_doc))
    /\ main_pc' = "add_tool_search_documents_next_page"
    /\ UNCHANGED <<argv, BASE_URL, server_info, running, exit_code, connect_response, stderr,
                   remaining_search_results, callVars>>

\* main 254-258
MainAddNextPage ==
    /\ main_pc = "add_tool_search_documents_next_page"
    /\ tools' = Append(tools, AddTool("search_documents_next_page",
                                      ToolName(argv.prefix, "search_documents_next_page"),
                                      search_documents_next_page_doc))
    /\ main_pc' = "add_tool_search_documents"
    /\ UNCHANGED <<argv, BASE_URL, server_info, running, exit_code, connect_response, stderr,
                   remaining_search_results, callVars>>

\* main 260-266
MainAddSearchDocuments ==
    /\ main_pc = "add_tool_search_documents"
    /\ tools' = Append(tools, AddTool("search_documents",
                                      ToolName(argv.prefix, "search_documents"),
                                      SearchDescription(server_info[1].metadataFields,
                                                        BASE_URL[1])))
    /\ main_pc' = "run"
    /\ UNCHANGED <<argv, BASE_URL, server_info, running, exit_code, connect_response, stderr,
                   remaining_search_results, callVars>>

\* main 268: mcp.run() serves tool calls from now on
MainRun ==
    /\ main_pc = "run"
    /\ running' = TRUE
    /\ main_pc' = "serving"
    /\ UNCHANGED <<argv, BASE_URL, server_info, tools, exit_code, connect_response, stderr,
                   remaining_search_results, callVars>>


(***************************************************************************)
(* Tool calls.  A caller invokes a tool (Invoke), the handler runs in      *)
(* steps that each touch the page store at most once, the call ends (pc =  *)
(* "done", ret holds the return value or the exception) and the answer is  *)
(* delivered to the caller (Deliver).                                      *)
(***************************************************************************)
Serving == main_pc = "serving" /\ exit_code = None

\* the logical search of caller c when it invokes tool f with argument a;
\* follow: the caller means to page through its search to the end, and its
\* pages are recorded
ChainOnInvoke(c, f, a, follow) ==
    IF follow /\ f = "search_documents" THEN [NoChain EXCEPT !.st = "start"]
    ELSE IF follow /\ f = "search_documents_next_page"
            /\ chain[c].st = "more" /\ a = chain[c].tok
    THEN [chain[c] EXCEPT !.st = "fetching"]
    ELSE NoChain

Invoke(c, f, a, follow) ==
    /\ Serving
    /\ pc[c] = "idle"
    /\ pc' = [pc EXCEPT ![c] = f]
    /\ fn' = [fn EXCEPT ![c] = f]
    /\ arg' = [arg EXCEPT ![c] = a]
    /\ chain' = [chain EXCEPT ![c] = ChainOnInvoke(c, f, a, follow)]
    /\ UNCHANGED <<mainVars, remaining_search_results, response, frame, ret, requests,
                   raced, issued, redeemed, json_body, outstanding>>

\* the call of c ends with out; sys.exit ends the process
Finish(c, out) ==
    /\ ret' = [ret EXCEPT ![c] = out]
    /\ pc' = [pc EXCEPT ![c] = "done"]
    /\ exit_code' = IF out.kind = "exit" THEN out.code ELSE exit_code
    /\ main_pc' = IF out.kind = "exit" THEN "exited" ELSE main_pc
    /\ UNCHANGED <<argv, BASE_URL, server_info, tools, running, connect_response, stderr>>

\* get_document 101-119
GetDocument(c, responses) ==
    /\ Serving
    /\ pc[c] = "get_document"
    /\ \E resp \in responses :
         /\ response' = [response EXCEPT ![c] = resp]
         /\ requests' = [requests EXCEPT ![c] = @ + 1]
         /\ Finish(c, get_document(DocumentUrl(BASE_URL[1], DocId(arg[c])), resp))
    /\ UNCHANGED <<remaining_search_results, fn, arg, frame, chain, raced, issued, redeemed,
                   json_body, outstanding>>

\* search_documents 201-223, up to the call of return_search_results
SearchDocuments(c, responses) ==
    /\ Serving
    /\ pc[c] = "search_documents"
    /\ json_body' = [json_body EXCEPT ![c] = <<SearchBody(arg[c])>>]
    /\ \E resp \in responses :
         /\ response' = [response EXCEPT ![c] = resp]
         /\ requests' = [requests EXCEPT ![c] = @ + 1]
         /\ IF RequestFailed(resp)
            THEN /\ Finish(c, search_documents_except(SearchUrl(BASE_URL[1]), resp))
                 /\ chain' = [chain EXCEPT ![c] = NoChain]
                 /\ UNCHANGED frame
            ELSE \* result = response.json(); return_search_results(result, len(result))
                 /\ frame' = [frame EXCEPT ![c] =
                                [remaining_results |-> resp.json, total |-> Len(resp.json)]]
                 /\ chain' = [chain EXCEPT ![c] =
                                IF chain[c].st = "start"
                                THEN [st |-> "fetching", R |-> resp.json, got |-> <<>>,
                                      tok |-> None, pages |-> 0]
                                ELSE NoChain]
                 /\ pc' = [pc EXCEPT ![c] = "return_search_results"]
                 /\ UNCHANGED <<mainVars, ret>>
    /\ UNCHANGED <<remaining_search_results, fn, arg, raced, issued, redeemed, outstanding>>

\* search_documents_next_page 156: _remaining_search_results.pop(next_page_token)
NextPagePop(c) ==
    /\ Serving
    /\ pc[c] = "search_documents_next_page"
    /\ IF arg[c] \in DOMAIN remaining_search_results
       THEN /\ remaining_search_results' = DictPop(remaining_search_results, arg[c])
            /\ frame' = [frame EXCEPT ![c] =
                 [remaining_results |-> remaining_search_results[arg[c]].documents,
                  total |-> remaining_search_results[arg[c]].total]]
            /\ pc' = [pc EXCEPT ![c] = "return_search_results"]
            /\ redeemed' = redeemed \cup {arg[c]}
            /\ raced' = [raced EXCEPT ![c] =
                 \E d \in Clients \ {c} :
                    pc[d] = "search_documents_next_page" /\ arg[d] = arg[c]]
            /\ UNCHANGED <<mainVars, ret, chain>>
       ELSE \* dict.pop without a default raises KeyError
            /\ remaining_search_results' = DictPop(remaining_search_results, arg[c])
            /\ Finish(c, Raise("KeyError", <<"next_page_token">>))
            /\ chain' = [chain EXCEPT ![c] = NoChain]
            /\ UNCHANGED <<frame, raced, redeemed>>
    /\ UNCHANGED <<fn, arg, response, requests, issued, json_body, outstanding>>

\* the logical search of c after return_search_results returned page
\* (a chain that has delivered more documents than the search found is
\* followed no further: "overrun")
ChainOnPage(c, page) ==
    IF chain[c].st = "fetching"
    THEN [chain[c] EXCEPT !.got = @ \o page.documents,
                          !.pages = @ + 1,
                          !.tok = page.next_page_token,
                          !.st = IF Len(chain[c].got) + Len(page.documents) > Len(chain[c].R)
                                 THEN "overrun"
                                 ELSE IF page.next_page_token = None THEN "drained"
                                 ELSE "more"]
    ELSE chain[c]

\* the searches under way after the call fn[c] of c returned page: a first
\* page with a token starts one, a token-less page of a redemption ends one
OutstandingOnPage(c, page) ==
    IF fn[c] = "search_documents" /\ page.next_page_token # None
    THEN outstanding + 1
    ELSE IF fn[c] = "search_documents_next_page" /\ page.next_page_token = None
    THEN outstanding - 1
    ELSE outstanding

\* return_search_results 129-149, called by either search tool; count: the
\* searches under way are counted
ReturnSearchResults(c, count) ==
    /\ Serving
    /\ pc[c] = "return_search_results"
    /\ \E next_page_token \in Tokens :
         LET r == return_search_results(remaining_search_results,
                                        frame[c].remaining_results, frame[c].total,
                                        next_page_token) IN
         /\ remaining_search_results' = r.store
         /\ Finish(c, Return(r.page))
         /\ chain' = [chain EXCEPT ![c] = ChainOnPage(c, r.page)]
         /\ issued' = IF r.page.next_page_token = None THEN issued
                       ELSE issued \cup {r.page.next_page_token}
         /\ outstanding' = IF count THEN OutstandingOnPage(c, r.page) ELSE outstanding
    /\ UNCHANGED <<fn, arg, response, frame, requests, raced, redeemed, json_body>>

\* the answer reaches the caller; the handler's frame is gone
Deliver(c) ==
    /\ pc[c] = "done"
    /\ pc' = [pc EXCEPT ![c] = "idle"]
    /\ fn' = [fn EXCEPT ![c] = "none"]
    /\ arg' = [arg EXCEPT ![c] = None]
    /\ response' = [response EXCEPT ![c] = Unbound]
    /\ frame' = [frame EXCEPT ![c] = NoFrame]
    /\ ret' = [ret EXCEPT ![c] = NoRet]
    /\ requests' = [requests EXCEPT ![c] = 0]
    /\ raced' = [raced EXCEPT ![c] = FALSE]
    /\ json_body' = [json_body EXCEPT ![c] = <<>>]
    /\ UNCHANGED <<mainVars, remaining_search_results, chain, issued, redeemed, outstanding>>

(***************************************************************************)
(* Specifications.                                                         *)
(***************************************************************************)
\* the command line and handshake answers of the whole-program specification
CanonArgvs == {[base_url |-> "http://ps", prefix |-> "None"]}
CanonFields == <<"rating", "author">>
\* a search_documents call with the query alone
CanonSearchArgs ==
    [lucene_query_string |-> <<"red cabbage">>, author_id |-> NoneArg,
     submission_date_range_start |-> NoneArg, submission_date_range_end |-> NoneArg]
CanonConnectResponses ==
    {HttpResponse(200, "", ServerInfoJson(CanonFields)), HttpResponse(401, "", InvalidJson),
     Unbound}

Main(responses) ==
    \/ MainInitializeServer(responses)
    \/ MainAddGetDocument
    \/ MainAddNextPage
    \/ MainAddSearchDocuments
    \/ MainRun

\* startup alone, for every command line and every handshake answer
InitStartup == InitWith(Argvs)
NextStartup == Main(ConnectResponses)
SpecStartup == InitStartup /\ [][NextStartup]_vars

\* the whole program: startup, then callers invoking tools concurrently
Init == InitWith(CanonArgvs)
Next ==
    \/ Main(CanonConnectResponses)
    \/ \E c \in Clients :
         \/ \E d \in DocumentIds : Invoke(c, "get_document", d, FALSE)
         \/ Invoke(c, "search_documents", CanonSearchArgs, FALSE)
         \/ \E t \in Tokens : Invoke(c, "search_documents_next_page", t, FALSE)
         \/ GetDocument(c, GetResponses)
         \/ SearchDocuments(c, PagedSearchResponses)
         \/ NextPagePop(c)
         \/ ReturnSearchResults(c, FALSE)
         \/ Deliver(c)
Spec == Init /\ [][Next]_vars

\* one caller that pages through each of its searches to the end: it
\* redeems the token of the page it got last until a page has none
NextDrain ==
    \/ Main(CanonConnectResponses)
    \/ /\ chain["c1"].st \in {"none", "drained"}
       /\ \E a \in SearchArgs : Invoke("c1", "search_documents", a, TRUE)
    \/ /\ chain["c1"].st = "more"
       /\ Invoke("c1", "search_documents_next_page", chain["c1"].tok, TRUE)
    \/ SearchDocuments("c1", SearchResponses)
    \/ NextPagePop("c1")
    \/ ReturnSearchResults("c1", FALSE)
    \/ Deliver("c1")
SpecDrain == Init /\ [][NextDrain]_vars
\* the same caller, which never stops: it goes on calling and every call it
\* has made runs to its end
SpecDrainFair == SpecDrain /\ WF_vars(NextDrain)

\* callers that search and redeem tokens as they like, and leave searches
\* unfinished; the searches under way are counted, and at MaxOutstanding of
\* them no further search is started
StoreResultLists ==
    {DocRange(1, SEARCH_DOCUMENT_RESPONSE_SIZE + 1),
     DocRange(2, 2 * SEARCH_DOCUMENT_RESPONSE_SIZE + 1)}
StoreSearchResponses ==
    {HttpResponse(200, "", r) : r \in StoreResultLists} \cup {Unbound}
NextStore ==
    \/ Main(CanonConnectResponses)
    \/ \E c \in Clients :
         \/ /\ outstanding < MaxOutstanding
            /\ Invoke(c, "search_documents", CanonSearchArgs, FALSE)
         \/ \E t \in Tokens : Invoke(c, "search_documents_next_page", t, FALSE)
         \/ SearchDocuments(c, StoreSearchResponses)
         \/ NextPagePop(c)
         \/ ReturnSearchResults(c, TRUE)
         \/ Deliver(c)
SpecStore == Init /\ [][NextStore]_vars

(***************************************************************************)
(* The claims.                                                             *)
(***************************************************************************)
PageSize == SEARCH_DOCUMENT_RESPONSE_SIZE

\* C1: a caller that starts a search and keeps redeeming the token of the
\* page it got last receives, page after page, the backend's result list R:
\* what it has got so far followed by what the store holds under its token
\* is R; once a page carries no token it has got exactly R, every document
\* once and in R's order, and it never gets more than R.
C1_PagesConcatenateToR ==
    \A c \in Clients :
      /\ chain[c].st # "overrun"
      /\ chain[c].st = "drained" =>
           /\ chain[c].got = chain[c].R
           /\ chain[c].tok = None
      /\ chain[c].st = "more" =>
           /\ chain[c].tok \in DOMAIN remaining_search_results
           /\ chain[c].got \o remaining_search_results[chain[c].tok].documents
                = chain[c].R

\* a search of more than two pages has been paged to its end
C1_Witness ==
    \E c \in Clients :
      /\ chain[c].st = "drained"
      /\ Len(chain[c].R) > 2 * PageSize
      /\ pc[c] = "done"
      /\ fn[c] = "search_documents_next_page"

\* C2 (as claimed): the first redemption of an issued token succeeds; every
\* later redemption of that token, and every redemption of a token that was
\* never issued, ends with KeyError (the code's TokenNotFound) and no page.
C2_RedeemedOnce ==
    [][\A c \in Clients :
         (pc[c] = "search_documents_next_page" /\ pc'[c] # "search_documents_next_page")
         => IF arg[c] \in issued \ redeemed
            THEN pc'[c] = "return_search_results"
            ELSE /\ pc'[c] = "done"
                 /\ ret'[c].kind = "raise"
                 /\ ret'[c].exc = "KeyError"]_vars

\* the pop of c's search_documents_next_page call succeeded
Popped(c) ==
    /\ fn[c] = "search_documents_next_page"
    /\ \/ pc[c] = "return_search_results"
       \/ pc[c] = "done" /\ ret[c].kind = "return"

\* C3 (as claimed): of two search_documents_next_page calls on the same
\* token that run at the same time (one was waiting to pop when the other
\* popped), at most one succeeds.
C3_AtMostOneSucceeds ==
    \A c, d \in Clients :
      (c # d /\ Popped(c) /\ Popped(d) /\ arg[c] = arg[d]) => ~(raced[c] \/ raced[d])

\* C4 (as claimed): return_search_results on n documents: for n <= page size
\* the page holds all of them, has no token and the store is as before;
\* otherwise the page holds the first page-size documents and a token, and
\* the store has exactly one entry more than before: the token was in no
\* entry, its entry holds the documents after the page and the total, and
\* every entry the store had is as it was.
C4_StartSplits ==
    [][\A c \in Clients :
         (pc[c] = "return_search_results" /\ pc'[c] # "return_search_results")
         => LET docs == frame[c].remaining_results
                n == Len(docs)
                page == ret'[c].value
            IN /\ pc'[c] = "done"
               /\ ret'[c].kind = "return"
               /\ page.total = frame[c].total
               /\ IF n <= PageSize
                  THEN /\ page.documents = docs
                       /\ page.next_page_token = None
                       /\ remaining_search_results' = remaining_search_results
                  ELSE /\ page.documents = [i \in 1..PageSize |-> docs[i]]
                       /\ page.next_page_token \in Tokens
                       /\ page.next_page_token \notin DOMAIN remaining_search_results
                       /\ DOMAIN remaining_search_results'
                            = DOMAIN remaining_search_results \cup {page.next_page_token}
                       /\ remaining_search_results'[page.next_page_token]
                            = [documents |-> [i \in 1..(n - PageSize) |-> docs[PageSize + i]],
                               total |-> frame[c].total]
                       /\ \A k \in DOMAIN remaining_search_results \ {page.next_page_token} :
                            remaining_search_results'[k] = remaining_search_results[k]]_vars

\* the backend did not answer the request, or answered with an error status
BackendFailed(r) == r.kind = "unbound" \/ r.status_code \in 400..599

\* C5: a search_documents call whose backend request fails ends with an
\* exception, not with documents, and leaves the page store as it was.
C5_FailedSearchLeavesStore ==
    [][\A c \in Clients :
         (pc[c] = "search_documents" /\ pc'[c] # "search_documents"
            /\ BackendFailed(response'[c]))
         => /\ pc'[c] = "done"
            /\ ret'[c].kind = "raise"
            /\ remaining_search_results' = remaining_search_results]_vars

\* a search failed with HTTP 400 while the store held an entry
C5_Witness ==
    \E c \in Clients :
      /\ pc[c] = "done"
      /\ fn[c] = "search_documents"
      /\ response[c].kind = "http"
      /\ response[c].status_code = 400
      /\ ret[c].kind = "raise"
      /\ remaining_search_results # <<>>

\* C6 (as claimed): a search answered with HTTP 400 raises the invalid
\* search query error, which contains the message of the backend's body; a
\* search answered with 401 raises the unauthorized error.
C6_InvalidQueryCarriesMessage ==
    \A c \in Clients :
      (pc[c] = "done" /\ fn[c] = "search_documents" /\ response[c].kind = "http")
      => /\ response[c].status_code = 400 =>
              /\ ret[c].kind = "raise"
              /\ ret[c].msg[1] = "Invalid search query: "
              /\ response[c].text \in Atoms(ret[c].msg)
         /\ response[c].status_code = 401 =>
              /\ ret[c].kind = "raise"
              /\ ret[c].msg = <<"Unauthorized - invalid user ID">>

\* C7: when the handshake call fails, startup halts: the process has exited
\* with status 1 after the message of the failure (401: invalid token, 404:
\* invalid URL, otherwise the generic one), no ServerInfo exists, no tool is
\* registered and mcp.run is not called.
C7_HandshakeFailureHalts ==
    (connect_response # <<>> /\ BackendFailed(connect_response[1]))
    => /\ main_pc = "exited"
       /\ exit_code = 1
       /\ server_info = <<>>
       /\ tools = <<>>
       /\ ~running
       /\ LET r == connect_response[1]
              line == stderr[Len(stderr)]
          IN IF r.kind = "http" /\ r.status_code = 401
             THEN line = <<"Error: ", "Authentication failed - invalid token">>
             ELSE IF r.kind = "http" /\ r.status_code = 404
             THEN line = <<"Error: ", "Invalid PatentSafe URL">>
             ELSE line[2] = "Failed to initialize PatentSafe connection: "

\* the handshake was answered with 401 and the process has exited
C7_Witness ==
    /\ connect_response # <<>>
    /\ connect_response[1].kind = "http"
    /\ connect_response[1].status_code = 401
    /\ main_pc = "exited"

\* C8: the process exits only in the handshake: once it has exited it was
\* never serving; while it serves, every tool call ends with a return value
\* or with an exception raised to the caller, never with the end of the
\* process, and every call whose backend request failed ends with an
\* exception.
C8_OnlyHandshakeTerminates ==
    /\ exit_code # None => (~running /\ tools = <<>> /\ connect_response # <<>>)
    /\ running => main_pc = "serving"
    /\ \A c \in Clients :
         pc[c] = "done" =>
           /\ ret[c].kind \in {"return", "raise"}
           /\ (requests[c] > 0 /\ BackendFailed(response[c])) => ret[c].kind = "raise"

\* one call has failed in the backend and another on its token, and the
\* process serves on
C8_Witness ==
    /\ running
    /\ exit_code = None
    /\ \E c, d \in Clients :
         /\ pc[c] = "done" /\ fn[c] = "get_document"
         /\ response[c].kind = "http" /\ response[c].status_code = 500
         /\ ret[c].kind = "raise"
         /\ pc[d] = "done" /\ fn[d] = "search_documents_next_page"
         /\ ret[d].kind = "raise" /\ ret[d].exc = "KeyError"

\* s occurs in desc as a run of consecutive atoms
Contiguous(desc, s) ==
    \E i \in 1..(Len(desc) + 1) :
       /\ i + Len(s) - 1 <= Len(desc)
       /\ \A j \in 1..Len(s) : desc[i + j - 1] = s[j]

\* listing holds the names of fields, each as often as fields does, in order
SortedListing(listing, fields) ==
    /\ Len(listing) = Len(fields)
    /\ \A f \in Atoms(fields) :
         Cardinality({i \in 1..Len(listing) : listing[i] = f})
           = Cardinality({i \in 1..Len(fields) : fields[i] = f})
    /\ \A i, j \in 1..Len(listing) : i < j => ~StrLess(listing[j], listing[i])

\* the description registered for search_documents lists every field name of
\* the handshake, in sorted order
DescriptionListsFields ==
    LET desc == tools[3].description
        fields == server_info[1].metadataFields
    IN /\ \A f \in Atoms(fields) : f \in Atoms(desc)
       /\ \E listing \in [1..Len(fields) -> Atoms(fields)] :
            /\ SortedListing(listing, fields)
            /\ Contiguous(desc, join(", ", listing))

\* C9 (as claimed): once search_documents is registered, its description
\* lists every field name of the handshake in sorted order and no
\* placeholder marker remains in it (marker text that is itself a field name
\* or the base URL is a substituted value, not a remaining marker), for
\* every list of field names and every base URL.
C9_DescriptionForEveryInput ==
    Len(tools) >= 3 =>
      /\ DescriptionListsFields
      /\ Atoms(tools[3].description) \cap Markers
           \subseteq Atoms(server_info[1].metadataFields) \cup {argv.base_url}

\* (what holds of the two chained replace calls: for field names and a base
\* URL that are not marker text, the description lists the field names
\* sorted and holds no marker text at all)
DescriptionWithoutMarkerInputs ==
    (/\ Len(tools) >= 3
     /\ Atoms(server_info[1].metadataFields) \cap Markers = {}
     /\ argv.base_url \notin Markers)
    => /\ DescriptionListsFields
       /\ Atoms(tools[3].description) \cap Markers = {}

\* search_documents is registered after a handshake that listed two field
\* names out of order
DescriptionWitness ==
    /\ Len(tools) >= 3
    /\ tools[3].fn = "search_documents"
    /\ server_info[1].metadataFields = <<"rating", "author">>
    /\ argv.base_url = "http://ps"

\* C10: get_document makes one backend request; a 200 answer's document is
\* returned as it is; 404 raises "not found or access denied" whatever the
\* backend's reason, 401 raises unauthorized, 403 raises access denied.
C10_GetDocumentClassifies ==
    \A c \in Clients :
      (pc[c] = "done" /\ fn[c] = "get_document")
      => /\ requests[c] = 1
         /\ response[c].kind = "http" =>
              LET status == response[c].status_code IN
              /\ status = 200 => ret[c] = Return(response[c].json)
              /\ status = 404 =>
                   ret[c] = Raise("Exception", <<"Document not found or access denied">>)
              /\ status = 401 =>
                   ret[c] = Raise("Exception", <<"Unauthorized - invalid user ID">>)
              /\ status = 403 => ret[c] = Raise("Exception", <<"Access denied">>)

\* a document the caller may not read was asked for and answered with 404
C10_Witness ==
    \E c \in Clients :
      /\ pc[c] = "done"
      /\ fn[c] = "get_document"
      /\ response[c].kind = "http"
      /\ response[c].status_code = 404
      /\ response[c].text = "not yours"
      /\ ret[c].kind = "raise"

\* ceil(n / p) for p >= 1
CeilDiv(n, p) == (n + p - 1) \div p
\* the number of pages of a search with n results
PagesOf(n) == IF CeilDiv(n, PageSize) < 1 THEN 1 ELSE CeilDiv(n, PageSize)

\* C11: paging finishes: a caller that keeps redeeming the token of the page
\* it got last gets, for a search with n results, its token-less page as
\* page number max(1, ceil(n / page size)) and every page before carries a
\* token; each redemption that stores a remainder stores a shorter one than
\* it popped; and a search that was started is in the end drained (or failed
\* in the backend).
C11_PagingFinishes ==
    /\ [](\A c \in Clients :
            /\ chain[c].st = "drained" => chain[c].pages = PagesOf(Len(chain[c].R))
            /\ chain[c].st = "more" => chain[c].pages < PagesOf(Len(chain[c].R))
            /\ chain[c].st # "overrun")
    /\ [][\A c \in Clients :
            (/\ pc[c] = "return_search_results"
             /\ fn[c] = "search_documents_next_page"
             /\ pc'[c] = "done"
             /\ ret'[c].value.next_page_token # None)
            => Len(remaining_search_results'[ret'[c].value.next_page_token].documents)
                 < Len(frame[c].remaining_results)]_vars
    /\ \A c \in Clients :
         (chain[c].st \in {"start", "fetching", "more"})
           ~> (chain[c].st \in {"drained", "none"})

\* a search with MaxLen results was drained with its third page
C11_Witness ==
    \E c \in Clients :
      /\ chain[c].st = "drained"
      /\ Len(chain[c].R) = MaxLen
      /\ chain[c].pages = 3
      /\ pc[c] = "done"
      /\ ret[c].kind = "return"
      /\ ret[c].value.next_page_token = None

\* C12 (as claimed): every token return_search_results produces is fresh: it
\* is the token of no entry the page store holds at that moment, so storing
\* the new remainder replaces no entry and leaves every entry's documents
\* and total as they were.
C12_TokensFresh ==
    [][\A c \in Clients :
         (/\ pc[c] = "return_search_results"
          /\ pc'[c] = "done"
          /\ ret'[c].value.next_page_token # None)
         => /\ ret'[c].value.next_page_token \notin DOMAIN remaining_search_results
            /\ \A k \in DOMAIN remaining_search_results :
                 /\ k \in DOMAIN remaining_search_results'
                 /\ remaining_search_results'[k] = remaining_search_results[k]]_vars

\* C13 (as claimed): a get_document or search_documents call whose backend
\* request got no HTTP answer (network error, timeout) made that one request
\* and ends with the classified error of its tool: "Failed to fetch
\* document: ..." or "Failed to search documents: ...".
C13_TransportFailureClassified ==
    \A c \in Clients :
      (/\ pc[c] = "done"
       /\ fn[c] \in {"get_document", "search_documents"}
       /\ response[c].kind = "unbound")
      => /\ requests[c] = 1
         /\ ret[c].kind = "raise"
         /\ ret[c].exc = "Exception"
         /\ ret[c].msg[1] = IF fn[c] = "get_document"
                            THEN "Failed to fetch document: "
                            ELSE "Failed to search documents: "

\* C14: every page of one logical search, the first from search_documents
\* and each later one from search_documents_next_page, reports as total the
\* number of documents the backend returned for the search, and so does the
\* remainder stored for its next page.
C14_SameTotal ==
    \A c \in Clients :
      /\ (/\ pc[c] = "done"
          /\ ret[c].kind = "return"
          /\ fn[c] \in {"search_documents", "search_documents_next_page"}
          /\ chain[c].st \in {"more", "drained"})
         => ret[c].value.total = Len(chain[c].R)
      /\ (chain[c].st = "more" /\ chain[c].tok \in DOMAIN remaining_search_results)
         => remaining_search_results[chain[c].tok].total = Len(chain[c].R)

\* the last page of a search with MaxLen results holds one document and
\* reports MaxLen
C14_Witness ==
    \E c \in Clients :
      /\ pc[c] = "done"
      /\ fn[c] = "search_documents_next_page"
      /\ ret[c].kind = "return"
      /\ chain[c].st = "drained"
      /\ Len(ret[c].value.documents) = MaxLen - 2 * PageSize
      /\ ret[c].value.total = MaxLen
      /\ MaxLen > 2 * PageSize

\* C15: every page search_documents or search_documents_next_page returns
\* holds at most page-size documents; it carries a token exactly when the
\* list it was cut from holds more documents than the page; a page with a
\* token holds exactly page-size documents; a page of a redemption holds at
\* least one document, and no stored remainder is empty.
C15_PageBudget ==
    /\ \A k \in DOMAIN remaining_search_results :
         Len(remaining_search_results[k].documents) >= 1
    /\ \A c \in Clients :
         (/\ pc[c] = "done"
          /\ ret[c].kind = "return"
          /\ fn[c] \in {"search_documents", "search_documents_next_page"})
         => LET page == ret[c].value IN
            /\ Len(page.documents) <= PageSize
            /\ page.next_page_token # None
                 <=> Len(frame[c].remaining_results) > Len(page.documents)
            /\ page.next_page_token # None => Len(page.documents) = PageSize
            /\ fn[c] = "search_documents_next_page" => Len(page.documents) >= 1

\* a redemption returned a full page with a token and left a remainder of one
\* document
C15_Witness ==
    \E c \in Clients :
      /\ pc[c] = "done"
      /\ fn[c] = "search_documents_next_page"
      /\ ret[c].kind = "return"
      /\ ret[c].value.next_page_token \in DOMAIN remaining_search_results
      /\ Len(ret[c].value.documents) = PageSize
      /\ Len(remaining_search_results[ret[c].value.next_page_token].documents) = 1

\* C16: the page store holds no more entries than searches are under way
\* (started with a token-bearing first page and not yet ended by a
\* token-less page); a redemption removes the entry of its token, and that
\* entry only, and then stores at most one entry, none when its page is
\* the token-less one.
C16_StoreBounded ==
    /\ [](Cardinality(DOMAIN remaining_search_results) <= outstanding)
    /\ [][\A c \in Clients :
            /\ (pc[c] = "search_documents_next_page" /\ pc'[c] = "return_search_results")
               => /\ arg[c] \in DOMAIN remaining_search_results
                  /\ DOMAIN remaining_search_results'
                       = DOMAIN remaining_search_results \ {arg[c]}
            /\ (/\ pc[c] = "return_search_results"
                /\ fn[c] = "search_documents_next_page"
                /\ pc'[c] = "done")
               => IF ret'[c].value.next_page_token = None
                  THEN remaining_search_results' = remaining_search_results
                  ELSE DOMAIN remaining_search_results'
                         = DOMAIN remaining_search_results
                             \cup {ret'[c].value.next_page_token}]_vars

\* a search has just been paged to its end while another one is under way:
\* the store holds the one entry of the other search
C16_Witness ==
    /\ outstanding = 1
    /\ Cardinality(DOMAIN remaining_search_results) = 1
    /\ \E c \in Clients :
         /\ pc[c] = "done"
         /\ fn[c] = "search_documents_next_page"
         /\ ret[c].kind = "return"
         /\ ret[c].value.next_page_token = None

\* the body carries key exactly when the optional argument was given, and
\* then with the value sent for it
CarriesOnlyIfGiven(body, key, argument, sent) ==
    /\ key \in DOMAIN body <=> argument.given
    /\ argument.given => body[key] = JsonString(sent)

\* C17 (as claimed): the body search_documents posts carries the query
\* string, and carries authorId, submissionDateRangeStart and
\* submissionDateRangeEnd only when the caller gave the argument: a filter
\* that was left out is absent from the body, not present as null.
C17_OmittedFiltersAbsent ==
    \A c \in Clients :
      (fn[c] = "search_documents" /\ json_body[c] # <<>>)
      => LET body == json_body[c][1]
             args == arg[c]
         IN /\ "luceneQuery" \in DOMAIN body
            /\ body["luceneQuery"] = JsonString(args.lucene_query_string)
            /\ CarriesOnlyIfGiven(body, "authorId", args.author_id,
                                  IF args.author_id.given
                                  THEN args.author_id.value ELSE <<>>)
            /\ CarriesOnlyIfGiven(body, "submissionDateRangeStart",
                                  args.submission_date_range_start,
                                  IF args.submission_date_range_start.given
                                  THEN isoformat(args.submission_date_range_start.value)
                                  ELSE <<>>)
            /\ CarriesOnlyIfGiven(body, "submissionDateRangeEnd",
                                  args.submission_date_range_end,
                                  IF args.submission_date_range_end.given
                                  THEN isoformat(args.submission_date_range_end.value)
                                  ELSE <<>>)
            /\ \A k \in DOMAIN body : body[k] # JsonNull

\* C18: a search_documents_next_page call whose token is not in the page
\* store ends with KeyError and leaves the store as it was: the same tokens,
\* each with the documents and the total it had.
C18_FailedRedemptionLeavesStore ==
    [][\A c \in Clients :
         (/\ pc[c] = "search_documents_next_page"
          /\ pc'[c] # "search_documents_next_page"
          /\ arg[c] \notin DOMAIN remaining_search_results)
         => /\ pc'[c] = "done"
            /\ ret'[c] = Raise("KeyError", <<"next_page_token">>)
            /\ DOMAIN remaining_search_results' = DOMAIN remaining_search_results
            /\ \A k \in DOMAIN remaining_search_results :
                 remaining_search_results'[k] = remaining_search_results[k]]_vars

\* a redemption has failed on a token that is not in the store while the
\* store holds the remainder of a search under another token
C18_Witness ==
    \E c \in Clients :
      /\ pc[c] = "done"
      /\ fn[c] = "search_documents_next_page"
      /\ ret[c].kind = "raise"
      /\ ret[c].exc = "KeyError"
      /\ arg[c] \notin DOMAIN remaining_search_results
      /\ remaining_search_results # <<>>

====
